---- MODULE Spec2Model ----
(***************************************************************************)
(* A model of the JPK quantitative-imaging reader and its Hertz fit:       *)
(*   jpkqidata.py          JpkQiData (open, segment), Segment.channel,     *)
(*                         Channel.get_coefficients / Channel.calibrate    *)
(*   calibratejpkqidata.py get_coefficients, calibratejpkqidata            *)
(*   hertzfit.py           threshold_level, find_fit_region_start, fit,    *)
(*                         subtract_baseline, fit_index, fit_all           *)
(* Each subsystem has a specification of its own (SpecData and SpecOpen,   *)
(* SpecBuild, SpecCal, SpecFit and SpecStart, SpecPool); the variables of  *)
(* the other subsystems stay idle.                                         *)
(***************************************************************************)
EXTENDS Integers, Sequences, FiniteSets, TLC

VARIABLES
    segment_styles,   \* JpkQiData.segment_styles: the class-level dict (jpkqidata.py:87)
    datasets,         \* the JpkQiData instances constructed so far
    ret,              \* outcome of the last call on the dataset layer
    bseg,             \* the Segment a grid is built from, with the archive it reads
    channelOut,       \* outcome of the last Segment.channel call
    shared_data,      \* the property map get_coefficients reads
    calOut,           \* outcome of the last get_coefficients / calibrate call
    fitIn,            \* the arguments of hertzfit.fit (of find_fit_region_start in SpecStart)
    fitOut,           \* outcome of the last fit call
    batch,            \* the arguments of hertzfit.fit_all and what np.empty handed out
    grids,            \* cp, cperr, E, Eerr of fit_all, pixel by pixel
    tasks,            \* where each pixel's pool task stands
    outqueue,         \* the pool's result queue: finished tasks not handled yet
    writers,          \* per pixel, the tasks whose callback wrote its cells
    overtaken,        \* a result was handled before that of a task submitted earlier
    pc                \* where the thread that called fit_all stands

dataVars  == <<segment_styles, datasets, ret>>
buildVars == <<bseg, channelOut>>
calVars   == <<shared_data, calOut>>
fitVars   == <<fitIn, fitOut>>
poolVars  == <<batch, grids, tasks, outqueue, writers, overtaken, pc>>
vars      == <<segment_styles, datasets, ret, bseg, channelOut, shared_data, calOut, fitIn, fitOut,
               batch, grids, tasks, outqueue, writers, overtaken, pc>>

(***************************************************************************)
(* Bounds of the model.                                                    *)
(***************************************************************************)
MaxSegments == 3      \* declared segments per archive
MaxOpens == 2         \* JpkQiData instances alive in one process
MaxPixels == 4        \* pixels of a grid: ilength * jlength
MaxPoints == 2        \* num_points of a segment
RecursionLimit == 5   \* frames the interpreter allows before it raises RuntimeError
MaxCurveLen == 5      \* samples of a force curve
MaxDataLen == 6       \* samples handed to find_fit_region_start on its own
MaxTasks == 4         \* pixels of a grid handed to fit_all
Workers == 2          \* worker processes of the pool

SeqsUpTo(S, n) == UNION {[1..k -> S] : k \in 0..n}

Min(S) == CHOOSE x \in S : \A y \in S : x <= y

Abs(n) == IF n < 0 THEN -n ELSE n

RECURSIVE GCD(_, _)
GCD(a, b) == IF b = 0 THEN a ELSE GCD(b, a % b)

(***************************************************************************)
(* Floating-point values are modelled by exact rationals <<numerator,      *)
(* denominator>> in lowest terms with a positive denominator; NaN is the   *)
(* pair with denominator 0, and arithmetic on NaN yields NaN.              *)
(***************************************************************************)
NaN == <<0, 0>>

IsNaN(a) == a[2] = 0

Rat(n, d) ==
    IF d = 0 THEN NaN
    ELSE LET g == GCD(Abs(n), Abs(d))
             sgn == IF d < 0 THEN -1 ELSE 1
         IN  <<(sgn * n) \div g, (sgn * d) \div g>>

FromInt(n) == <<n, 1>>

RAdd(a, b) == IF IsNaN(a) \/ IsNaN(b) THEN NaN ELSE Rat(a[1] * b[2] + b[1] * a[2], a[2] * b[2])

RMul(a, b) == IF IsNaN(a) \/ IsNaN(b) THEN NaN ELSE Rat(a[1] * b[1], a[2] * b[2])

\* a / b for b # 0 (Python raises ZeroDivisionError on a zero float divisor)
RDiv(a, b) == IF IsNaN(a) \/ IsNaN(b) THEN NaN ELSE Rat(a[1] * b[2], a[2] * b[1])

(***************************************************************************)
(* jpkqidata.py: JpkQiData                                                 *)
(***************************************************************************)
Styles == {"extend", "retract"}

\* A style key that shared-data/header.properties does not hold.
Missing == "<missing>"

EmptyDict == [s \in {} |-> 0]

\* dict[key] = value
DictSet(d, key, value) ==
    [s \in DOMAIN d \cup {key} |-> IF s = key THEN value ELSE d[s]]

\* What JpkQiData(filename) finds on disk.  kind:
\*   "nofile"     no such file: zipfile.ZipFile raises IOError
\*   "notzip"     not a zip archive: zipfile.BadZipfile
\*   "noentry"    a zip without header.properties or shared-data/header.properties
\*   "nokey"      a mandatory grid key is missing from header.properties
\*   "badnumber"  a mandatory grid key holds text that int()/float() rejects
\*   "nocount"    force-segment-header-infos.count is missing
\*   "badcount"   force-segment-header-infos.count is not a number
\*   "qi"         both property blocks read; count = Len(styles), and styles[k+1]
\*                is the style declared for ordinal k
\*   "nostyle"    as "qi", but the style key of the last ordinal is Missing
FailKinds == {"nofile", "notzip", "noentry", "nokey", "badnumber", "nocount", "badcount"}

\* The styles after a missing one are never read, so the archives with a
\* missing style are those whose last declared ordinal lacks its style key.
Files ==
    [kind : FailKinds, styles : {<<>>}]
    \cup [kind : {"qi"}, styles : SeqsUpTo(Styles, MaxSegments)]
    \cup [kind : {"nostyle"},
          styles : {Append(s, Missing) : s \in SeqsUpTo(Styles, MaxSegments - 1)}]

\* The exception the statements before the style loop raise (lines 99-109).
HeaderExcEmptyArchive(file) ==
    CASE file.kind = "nofile"    -> "IOError"
      [] file.kind = "notzip"    -> "BadZipfile"
      [] file.kind = "nokey"     -> "KeyError"
      [] file.kind = "badnumber" -> "ValueError"
      [] file.kind = "nocount"   -> "KeyError"
      [] file.kind = "badcount"  -> "ValueError"
      [] OTHER                   -> "none"
HeaderExc(file) ==
    CASE file.kind = "nofile"    -> "IOError"
      [] file.kind = "notzip"    -> "BadZipfile"
      [] file.kind = "noentry"   -> "KeyError"
      [] file.kind = "nokey"     -> "KeyError"
      [] file.kind = "badnumber" -> "ValueError"
      [] file.kind = "nocount"   -> "KeyError"
      [] file.kind = "badcount"  -> "ValueError"
      [] OTHER                   -> "none"

\* The loop of lines 110-113 from ordinal k on, over the dict d: a style is
\* inserted only when the dict does not hold it; a missing style key raises
\* KeyError and leaves the insertions made so far.
RECURSIVE StyleLoop(_, _, _)
StyleLoop(styles, k, d) ==
    IF k >= Len(styles) THEN [exc |-> "none", dict |-> d]
    ELSE IF styles[k + 1] = Missing THEN [exc |-> "KeyError", dict |-> d]
    ELSE IF styles[k + 1] \notin DOMAIN d
         THEN StyleLoop(styles, k + 1, DictSet(d, styles[k + 1], k))
         ELSE StyleLoop(styles, k + 1, d)

\* except (zipfile.BadZipfile, KeyError): raise JpkQiDataException
InitExcept(exc) ==
    IF exc \in {"BadZipfile", "KeyError"} THEN "JpkQiDataException" ELSE exc

\* JpkQiData.__init__ run with the class dict d: the exception that leaves the
\* constructor ("none": an instance is returned) and the class dict afterwards.
JpkQiData_init(file, d) ==
    IF HeaderExc(file) # "none"
    THEN [exc |-> InitExcept(HeaderExc(file)), dict |-> d]
    ELSE LET r == StyleLoop(file.styles, 0, d)
         IN  [exc |-> InitExcept(r.exc), dict |-> r.dict]

NoRet == [op |-> "none", exc |-> "none", kind |-> "none", ds |-> 0, style |-> "none", number |-> 0]

\* JpkQiData(filename)
Open(file) ==
    /\ Len(datasets) < MaxOpens
    /\ LET r == JpkQiData_init(file, segment_styles)
       IN  /\ segment_styles' = r.dict
           /\ datasets' = IF r.exc = "none"
                          THEN Append(datasets, [styles |-> file.styles])
                          ELSE datasets
           /\ ret' = [NoRet EXCEPT !.op = "open", !.exc = r.exc, !.kind = file.kind]
           /\ UNCHANGED <<buildVars, calVars, fitVars, poolVars>>

\* detect_by_content(filename, head, tail, filesize): the constructor runs
\* against the class dict, the instance is dropped, a bare except answers 0.
detect_by_content(file) ==
    LET r == JpkQiData_init(file, segment_styles)
    IN  /\ segment_styles' = r.dict
        /\ datasets' = datasets
        /\ ret' = [NoRet EXCEPT !.op = "detect", !.kind = file.kind,
                                !.number = IF r.exc = "none" THEN 100 ELSE 0]
        /\ UNCHANGED <<buildVars, calVars, fitVars, poolVars>>

\* self.segment_styles of an instance: the instance has no attribute of that
\* name, so the lookup reaches the class attribute.
InstanceStyles(i) == segment_styles

\* JpkQiData.segment(segment_style) on instance i.  hasSettings: header.properties
\* holds num-points and duration for the style; hasSegmentHeader: the archive
\* holds index/0/segments/<number>/segment-header.properties.
segment(i, style, hasSettings, hasSegmentHeader) ==
    LET d == InstanceStyles(i)
        exc == IF ~hasSettings THEN "KeyError"
               ELSE IF style \notin DOMAIN d THEN "KeyError"
               ELSE IF ~hasSegmentHeader THEN "KeyError"
               ELSE "none"
    IN  /\ ret' = [NoRet EXCEPT !.op = "segment", !.exc = exc, !.ds = i, !.style = style,
                                !.number = IF exc = "none" THEN d[style] ELSE 0]
        /\ UNCHANGED <<segment_styles, datasets, buildVars, calVars, fitVars, poolVars>>

\* JpkQiData(filename) as the first instance of the process
OpenFirst(file) == datasets = <<>> /\ Open(file)

DataInit ==
    /\ segment_styles = EmptyDict
    /\ datasets = <<>>
    /\ ret = NoRet

(***************************************************************************)
(* jpkqidata.py: Segment.channel                                           *)
(***************************************************************************)
Channels == {"vDeflection", "height"}

\* segment-header.properties: channel.<name>.lcd-info.*
LcdInfo(name) == IF name = "vDeflection" THEN 0 ELSE 1

ChannelNo(name) == IF name = "vDeflection" THEN 0 ELSE 1

\* lcd-info.<n>.encoder.scaling.{multiplier, offset} of shared-data/header.properties
EncoderMaps ==
    { [multiplier |-> (0 :> 2) @@ (1 :> -3), offset |-> (0 :> 1) @@ (1 :> 2)] }

\* Absence of index/<n>/segments/<s>/channels/<c>.dat from the archive.
Absent == -1

\* The Segments a grid is built from.  lens[n] is the number of int32 samples
\* the archive's .dat entries of pixel index n hold, or Absent.
Segments ==
    UNION { [ilength : {il}, jlength : {jl}, num_points : 1..MaxPoints, number : 0..1,
             encoder : EncoderMaps,
             lens : [0..(il * jl - 1) -> {Absent} \cup 0..(MaxPoints + 1)]] :
            <<il, jl>> \in {g \in (1..MaxPixels) \X (1..MaxPixels) : g[1] * g[2] <= MaxPixels} }

EntryPath(index, number, name) == [index |-> index, segment |-> number, channel |-> name]

\* The k-th (0-based) raw big-endian int32 of the entry at a path: every
\* sample of the archive is a different number.
RawSample(path, k) ==
    k + (MaxPoints + 2) * (ChannelNo(path.channel) + 2 * (path.segment + 2 * path.index)) - 3

\* numpy.frombuffer(self.zipfile.read(path), '>i'): the decoded samples
ZipRead(sg, path) == [k \in 1..sg.lens[path.index] |-> RawSample(path, k - 1)]

ZipHas(sg, path) == path.index \in DOMAIN sg.lens /\ sg.lens[path.index] # Absent

\* line 59
PixelIndexRowStride(sg, i, j) == j + (sg.ilength - 1 - i) * sg.ilength
PixelIndexSwapped(sg, i, j) == i + (sg.jlength - 1 - j) * sg.ilength
PixelIndex(sg, i, j) == j + (sg.ilength - 1 - i) * sg.jlength

\* line 65: channel_data*multiplier + offset
EncoderValueOffsetFirst(raw, multiplier, offset) == RMul(RAdd(FromInt(raw), FromInt(offset)), FromInt(multiplier))
EncoderValue(raw, multiplier, offset) == RAdd(RMul(FromInt(raw), FromInt(multiplier)), FromInt(offset))

\* numpy.ndindex(ilength, jlength): the p-th pixel (0-based), rows first
NdIndex(sg, p) == <<p \div sg.jlength, p % sg.jlength>>

NPixels(sg) == sg.ilength * sg.jlength

PixelPath(sg, name, p) ==
    EntryPath(PixelIndex(sg, NdIndex(sg, p)[1], NdIndex(sg, p)[2]), sg.number, name)

\* line 65 raises ValueError when the decoded samples do not fit the slice
\* channel[i, j, :length] (num_points long at most) and cannot be broadcast.
PixelRaises(sg, name, p) ==
    LET path == PixelPath(sg, name, p)
    IN  /\ ZipHas(sg, path)
        /\ sg.lens[path.index] > sg.num_points
        /\ sg.lens[path.index] # 1

\* lines 60-67 for one pixel: the NaN-filled vector with the samples read
\* stored in front; a KeyError (absent entry) leaves the vector NaN.
PixelVectorZeroFilled(sg, name, p) ==
    LET path == PixelPath(sg, name, p)
        lcd == LcdInfo(name)
    IN  [k \in 1..sg.num_points |->
            IF ZipHas(sg, path) /\ k <= sg.lens[path.index]
            THEN EncoderValue(ZipRead(sg, path)[k], sg.encoder.multiplier[lcd], sg.encoder.offset[lcd])
            ELSE FromInt(0)]
PixelVector(sg, name, p) ==
    LET path == PixelPath(sg, name, p)
        lcd == LcdInfo(name)
    IN  [k \in 1..sg.num_points |->
            IF ZipHas(sg, path) /\ k <= sg.lens[path.index]
            THEN EncoderValue(ZipRead(sg, path)[k], sg.encoder.multiplier[lcd], sg.encoder.offset[lcd])
            ELSE NaN]

NoChannel == [called |-> FALSE, exc |-> "none", name |-> "none", grid |-> <<>>, reads |-> <<>>]

\* Segment.channel(name): the loop runs over the pixels in ndindex order and
\* stops at the first pixel whose assignment raises; reads[pixel] is the
\* archive path the loop asked the archive for.
channel(name) ==
    LET sg == bseg
        bad == {p \in 0..(NPixels(sg) - 1) : PixelRaises(sg, name, p)}
        last == IF bad = {} THEN NPixels(sg) - 1 ELSE Min(bad)
    IN  /\ channelOut = NoChannel
        /\ channelOut' =
              [called |-> TRUE,
               exc |-> IF bad = {} THEN "none" ELSE "ValueError",
               name |-> name,
               grid |-> IF bad = {}
                        THEN [px \in {NdIndex(sg, p) : p \in 0..last} |->
                                 PixelVector(sg, name, px[1] * sg.jlength + px[2])]
                        ELSE <<>>,
               reads |-> [px \in {NdIndex(sg, p) : p \in 0..last} |->
                             PixelPath(sg, name, px[1] * sg.jlength + px[2])]]
        /\ UNCHANGED <<bseg, dataVars, calVars, fitVars, poolVars>>

BuildInit ==
    /\ bseg \in Segments
    /\ channelOut = NoChannel

(***************************************************************************)
(* jpkqidata.py: Channel.get_coefficients, Channel.calibrate               *)
(* calibratejpkqidata.py: get_coefficients, calibratejpkqidata             *)
(***************************************************************************)
\* The conversion names; "raw" is a name no property map configures.
Slots == {"volts", "distance", "force"}
SlotNames == Slots \cup {"raw"}

\* The property texts float() accepts, with the number each denotes.
FloatTable ==
    ("0" :> FromInt(0)) @@ ("2" :> FromInt(2)) @@ ("3" :> FromInt(3))
    @@ ("4" :> FromInt(4)) @@ ("5" :> FromInt(5)) @@ ("0.5" :> Rat(1, 2))

\* float(text): ValueError on a text that is no number
IsFloat(text) == text \in DOMAIN FloatTable
Float(text) == FloatTable[text]

Unconfigured == [base |-> Missing, multiplier |-> Missing, offset |-> Missing]

\* The three keys of one conversion: <prefix>base-calibration-slot,
\* <prefix>scaling.multiplier, <prefix>scaling.offset, each a text or Missing.
SlotConfigs ==
    [base : {Missing} \cup Slots,
     multiplier : {Missing, "2", "4", "0", "abc"},
     offset : {Missing, "3", "5"}]

VoltsConfigs ==
    { Unconfigured,
      [base |-> "raw", multiplier |-> "0.5", offset |-> "3"],
      [base |-> "force", multiplier |-> "2", offset |-> "3"] }

PropertyMaps ==
    { ("volts" :> v) @@ ("distance" :> d) @@ ("force" :> f) :
        v \in VoltsConfigs, d \in SlotConfigs, f \in SlotConfigs }

Config(sd, slot) == IF slot \in DOMAIN sd THEN sd[slot] ELSE Unconfigured

Coefficients(exc, multiplier, offset) == [exc |-> exc, multiplier |-> multiplier, offset |-> offset]

\* line 40: base_multiplier * multiplier, base_offset + offset / base_multiplier
ComposeOffsetUndivided(bm, bo, m, o) == <<RMul(bm, m), RAdd(bo, o)>>
ComposeOffsetTimesBase(bm, bo, m, o) == <<RMul(bm, m), RAdd(bo, RMul(o, bm))>>
Compose(bm, bo, m, o) == <<RMul(bm, m), RAdd(bo, RDiv(o, bm))>>

\* lines 34-42 (calibratejpkqidata.py 40-47 is the same function over meta):
\* a missing key is a KeyError, caught and answered with (1.0, 0.0); float()
\* of a text that is no number raises ValueError, a zero base multiplier
\* ZeroDivisionError, and a call deeper than the interpreter's recursion limit
\* RuntimeError; none of the three is caught.
RECURSIVE get_coefficients(_, _, _)
get_coefficients(sd, conversion, depth) ==
    LET c == Config(sd, conversion)
    IN  IF depth > RecursionLimit THEN Coefficients("RuntimeError", NaN, NaN)
        ELSE IF c.base = Missing THEN Coefficients("none", FromInt(1), FromInt(0))
        ELSE IF c.multiplier = Missing THEN Coefficients("none", FromInt(1), FromInt(0))
        ELSE IF ~IsFloat(c.multiplier) THEN Coefficients("ValueError", NaN, NaN)
        ELSE IF c.offset = Missing THEN Coefficients("none", FromInt(1), FromInt(0))
        ELSE IF ~IsFloat(c.offset) THEN Coefficients("ValueError", NaN, NaN)
        ELSE LET b == get_coefficients(sd, c.base, depth + 1)
             IN  IF b.exc # "none" THEN b
                 ELSE IF b.multiplier = FromInt(0)
                      THEN Coefficients("ZeroDivisionError", NaN, NaN)
                 ELSE LET r == Compose(b.multiplier, b.offset, Float(c.multiplier), Float(c.offset))
                      IN  Coefficients("none", r[1], r[2])

\* jpkqidata.py line 46: (self + offset) * multiplier
AffineMultiplyFirst(v, multiplier, offset) == RAdd(RMul(v, multiplier), offset)
Affine(v, multiplier, offset) == RMul(RAdd(v, offset), multiplier)

\* calibratejpkqidata.py lines 108-112: add(offset), then multiply(multiplier)
BrickAddMultiply(v, multiplier, offset) == RMul(RAdd(v, offset), multiplier)

\* The sample values a channel or a brick holds when it is calibrated.
SampleValues == {FromInt(1), FromInt(-2)}

NoCal == [op |-> "none", slot |-> "none", v |-> NaN, exc |-> "none",
          multiplier |-> NaN, offset |-> NaN, out |-> NaN]

\* Each run of the calibration layer makes one top-level call on its
\* property map.
\* a top-level get_coefficients(conversion)
GetCoefficients(conversion) ==
    LET r == get_coefficients(shared_data, conversion, 1)
    IN  /\ calOut = NoCal
        /\ calOut' = [NoCal EXCEPT !.op = "get_coefficients", !.slot = conversion,
                                   !.exc = r.exc, !.multiplier = r.multiplier,
                                   !.offset = r.offset]
        /\ UNCHANGED <<shared_data, dataVars, buildVars, fitVars, poolVars>>

\* Channel.calibrate(conversion) on a channel holding the sample v
calibrate(conversion, v) ==
    LET r == get_coefficients(shared_data, conversion, 1)
    IN  /\ calOut = NoCal
        /\ calOut' = [NoCal EXCEPT !.op = "calibrate", !.slot = conversion, !.v = v,
                                   !.exc = r.exc, !.multiplier = r.multiplier,
                                   !.offset = r.offset,
                                   !.out = IF r.exc = "none"
                                           THEN Affine(v, r.multiplier, r.offset)
                                           ELSE NaN]
        /\ UNCHANGED <<shared_data, dataVars, buildVars, fitVars, poolVars>>

\* calibratejpkqidata(brick, meta, preview, [conversion]) on a brick holding v
calibratejpkqidata(conversion, v) ==
    LET r == get_coefficients(shared_data, conversion, 1)
    IN  /\ calOut = NoCal
        /\ calOut' = [NoCal EXCEPT !.op = "calibratejpkqidata", !.slot = conversion, !.v = v,
                                   !.exc = r.exc, !.multiplier = r.multiplier,
                                   !.offset = r.offset,
                                   !.out = IF r.exc = "none"
                                           THEN BrickAddMultiply(v, r.multiplier, r.offset)
                                           ELSE NaN]
        /\ UNCHANGED <<shared_data, dataVars, buildVars, fitVars, poolVars>>

CalInit ==
    /\ shared_data \in PropertyMaps
    /\ calOut = NoCal

(***************************************************************************)
(* hertzfit.py: threshold_level, find_fit_region_start, fit,               *)
(* subtract_baseline.  The curves hold integers.  scipy's least-squares    *)
(* solver is outside the repository: what it answers (the baseline it       *)
(* finds, whether it converges) is an input of the model.                  *)
(***************************************************************************)
\* The default of the optional bounds depth, setpoint and depthcount.
None == -1000

RECURSIVE SumSeq(_)
SumSeq(q) == IF q = <<>> THEN 0 ELSE Head(q) + SumSeq(Tail(q))

\* len(data) * .4 used as a slice bound: the integer part
NoiseCountHalf(len) == len \div 2
NoiseCount(len) == (4 * len) \div 10

\* data[k] > threshold_level(data, factor) for the 0-based index k, with
\* threshold_level = factor * data[:len(data)*.4].std(): for n = NoiseCount
\* and d = data[:n], std(d)^2 = (n*sum(d^2) - sum(d)^2) / n^2, and the std of
\* an empty slice is NaN, which no sample exceeds.
ExceedsThreshold(data, factor, k) ==
    LET n == NoiseCount(Len(data))
        d == SubSeq(data, 1, n)
        sq == [i \in 1..n |-> d[i] * d[i]]
    IN  /\ n > 0
        /\ data[k + 1] > 0
        /\ data[k + 1] * data[k + 1] * n * n
              > factor * factor * (n * SumSeq(sq) - SumSeq(d) * SumSeq(d))

\* find_fit_region_start: np.argwhere(data > threshold)[0,0], and 0 on IndexError
find_fit_region_start(data, threshold_factor) ==
    LET over == {k \in 0..(Len(data) - 1) : ExceedsThreshold(data, threshold_factor, k)}
    IN  IF over = {} THEN 0 ELSE Min(over)

\* `if depth:` and its like: None and 0 both leave the branch out
Truthy(bound) == bound # None /\ bound # 0

FitResult(exc, nan, start, end) == [called |-> TRUE, exc |-> exc, nan |-> nan, start |-> start, end |-> end]

NoFit == [called |-> FALSE, exc |-> "none", nan |-> FALSE, start |-> 0, end |-> 0]

\* subtract_baseline(xdata, ydata) once curve_fit(line, ...) answered b
subtract_baseline(xdata, ydata, b) ==
    [k \in 1..Len(ydata) |-> ydata[k] - (xdata[k] * b.slope + b.offset)]

\* fit(xdata, ydata, depth, setpoint, depthcount, threshold_factor).
\* baseline: what curve_fit(line, ...) answers in subtract_baseline;
\* hertzFit: whether curve_fit(hertz, ...) converges on the fit region.
\* curve_fit raises TypeError when it is given fewer samples than parameters
\* (two) and RuntimeError when the solver does not converge.  Only the
\* curve_fit of lines 74-77 stands in a try block.
fit(xdata, ydata, depth, setpoint, depthcount, threshold_factor, baseline, hertzFit) ==
    IF NoiseCount(Len(xdata)) < 2 THEN FitResult("TypeError", FALSE, 0, 0)
    ELSE IF baseline.exc # "none" THEN FitResult(baseline.exc, FALSE, 0, 0)
    ELSE
    LET y == subtract_baseline(xdata, ydata, baseline)
        start == find_fit_region_start(y, threshold_factor)
        len == Len(xdata)
        end1 == IF Truthy(depthcount) THEN Min({len, start + depthcount}) ELSE len
        deeper == {k \in 0..(len - 1) : xdata[k + 1] < xdata[start + 1] - depth}
        end2 == IF Truthy(depth) /\ deeper # {} THEN Min({end1, Min(deeper)}) ELSE end1
        above == {k \in 0..(len - 1) : y[k + 1] > setpoint}
        end3 == IF Truthy(setpoint) /\ above # {} THEN Min({end2, Min(above)}) ELSE end2
        region == IF end3 > start THEN end3 - start ELSE 0
    IN  IF Truthy(setpoint) /\ above = {} THEN FitResult("IndexError", FALSE, start, end2)
        ELSE IF region < 2 THEN FitResult("none", TRUE, start, end3)
        ELSE IF hertzFit # "converged" THEN FitResult("none", TRUE, start, end3)
        ELSE FitResult("none", FALSE, start, end3)

\* The curves: xdata falls or rises by one per sample, ydata holds 0 and 3.
XData(len, shape) == [k \in 1..len |-> IF shape = "falling" THEN len + 1 - k ELSE k]

Baselines ==
    { [exc |-> "RuntimeError", slope |-> 0, offset |-> 0],
      [exc |-> "none", slope |-> 0, offset |-> 0],
      [exc |-> "none", slope |-> 0, offset |-> 1] }

FitInputs ==
    UNION { [xdata : {XData(len, shape) : shape \in {"falling", "rising"}},
             ydata : [1..len -> {0, 3}],
             depth : {None, 0, 1},
             setpoint : {None, 0, 2, 9},
             depthcount : {None, 0, 1},
             threshold_factor : {1, 5},
             baseline : Baselines,
             hertzFit : {"converged", "RuntimeError"}] : len \in 0..MaxCurveLen }

\* a call of fit
Fit ==
    /\ fitOut = NoFit
    /\ fitOut' = fit(fitIn.xdata, fitIn.ydata, fitIn.depth, fitIn.setpoint, fitIn.depthcount,
                     fitIn.threshold_factor, fitIn.baseline, fitIn.hertzFit)
    /\ UNCHANGED <<fitIn, dataVars, buildVars, calVars, poolVars>>

FitInit ==
    /\ fitIn \in FitInputs
    /\ fitOut = NoFit

\* The data find_fit_region_start is called on directly (line 296), with the
\* threshold factor.
StartInputs ==
    [data : SeqsUpTo({-3, 0, 1, 2}, MaxDataLen), threshold_factor : {1, 5}]

\* a call of find_fit_region_start(data, threshold_factor)
FindFitRegionStart ==
    /\ fitOut = NoFit
    /\ fitOut' = FitResult("none", FALSE,
                           find_fit_region_start(fitIn.data, fitIn.threshold_factor), 0)
    /\ UNCHANGED <<fitIn, dataVars, buildVars, calVars, poolVars>>

StartInit ==
    /\ fitIn \in StartInputs
    /\ fitOut = NoFit

(***************************************************************************)
(* hertzfit.py: fit_index, fit_all.  multiprocessing.Pool hands the tasks  *)
(* to its worker processes in the order they were submitted; the results   *)
(* come back through one queue in the order the tasks finish, and the      *)
(* pool's result thread runs the callback of a task that returned and      *)
(* drops the result of a task that raised.                                 *)
(***************************************************************************)
\* ndindex(shape): the p-th index (0-based) of a two-dimensional shape
ndindexModular(shape, p) == <<p % shape[1], p % shape[2]>>
ndindex(shape, p) == <<p \div shape[2], p % shape[2]>>

ShapeCells(shape) == (0..(shape[1] - 1)) \X (0..(shape[2] - 1))

ShapeSize(shape) == shape[1] * shape[2]

\* What curve_fit(hertz, ...) answers when it converges: popt = (cp, E) and
\* the diagonal of pcov, whose square roots are perr = (cperr, Eerr).
HertzAnswer(cp, cperr, E, Eerr) == [popt |-> <<cp, E>>, perr |-> <<cperr, Eerr>>]

NaNAnswer == [popt |-> <<NaN, NaN>>, perr |-> <<NaN, NaN>>]

\* lines 78-84: popt, perr of a fit that did not raise
FitValues(r, answer) == IF r.nan THEN NaNAnswer ELSE answer

\* fit_index(index, xdata, ydata, depth, setpoint, threshold_factor): fit is
\* called without depthcount, and what it raises leaves the task.
fit_index(index, curve, depth, setpoint, threshold_factor) ==
    LET r == fit(curve.xdata, curve.ydata, depth, setpoint, None, threshold_factor,
                 curve.baseline, curve.hertzFit)
    IN  [index |-> index, exc |-> r.exc,
         popt |-> FitValues(r, curve.answer).popt,
         perr |-> FitValues(r, curve.answer).perr]

\* The cells grid[index] denotes for the index tuple of a task.
IndexedCellsRow(shape, index) == {c \in ShapeCells(shape) : c[1] = index[1]}
IndexedCells(shape, index) == {index}

\* fit_callback(parameters), lines 109-114, on the four grids g
fit_callback(g, shape, parameters) ==
    LET at == IndexedCells(shape, parameters.index)
    IN  [cp    |-> [c \in DOMAIN g.cp    |-> IF c \in at THEN parameters.popt[1] ELSE g.cp[c]],
         cperr |-> [c \in DOMAIN g.cperr |-> IF c \in at THEN parameters.perr[1] ELSE g.cperr[c]],
         E     |-> [c \in DOMAIN g.E     |-> IF c \in at THEN parameters.popt[2] ELSE g.E[c]],
         Eerr  |-> [c \in DOMAIN g.Eerr  |-> IF c \in at THEN parameters.perr[2] ELSE g.Eerr[c]]]

\* The curves of a pixel, height falling from 5 to 1: a force that rises to
\* 3 and is fitted, one that rises to 12 and is fitted, and one that rises
\* to 3 on which the solver does not converge.
BatchCurve(ydata, hertzFit, answer) ==
    [xdata |-> XData(5, "falling"), ydata |-> ydata,
     baseline |-> [exc |-> "none", slope |-> 0, offset |-> 0],
     hertzFit |-> hertzFit, answer |-> answer]

BatchCurves == {"rise3", "rise12", "unsolved"}

\* nominal_height[index], force[index] and what the solver makes of them
CurveOf(name) ==
    CASE name = "rise3" ->
            BatchCurve(<<0, 0, 0, 3, 3>>, "converged",
                       HertzAnswer(FromInt(2), FromInt(1), FromInt(1000), FromInt(5)))
      [] name = "rise12" ->
            BatchCurve(<<0, 0, 0, 3, 12>>, "converged",
                       HertzAnswer(FromInt(3), Rat(1, 2), FromInt(4000), FromInt(7)))
      [] OTHER ->
            BatchCurve(<<0, 0, 0, 3, 3>>, "RuntimeError", NaNAnswer)

\* What the memory np.empty hands out may hold.
EmptyContents == {FromInt(-7), NaN}

\* force.shape[:2]: grids of one or two rows
Shapes == {g \in (1..2) \X (1..MaxTasks) : g[1] * g[2] <= MaxTasks}

\* The grids of curves: every pixel holds one curve, but for one pixel that
\* may hold another.
CurveGrids(shape) ==
    { [c \in ShapeCells(shape) |-> IF c = odd THEN o ELSE b] :
        b \in BatchCurves, o \in BatchCurves, odd \in ShapeCells(shape) }

\* fit_all(nominal_height, force, depth, setpoint, threshold_factor)
Batches ==
    UNION { [shape : {shape},
             curves : CurveGrids(shape),
             depth : {None},
             setpoint : {None, 9},
             threshold_factor : {1},
             empty : EmptyContents] : shape \in Shapes }

TaskSet == 1..Len(tasks)

Running == {t \in TaskSet : tasks[t].state = "running"}

\* line 118, once per index of np.ndindex(E.shape)
Submit ==
    /\ pc = "submit"
    /\ Len(tasks) < ShapeSize(batch.shape)
    /\ tasks' = Append(tasks, [index |-> ndindex(batch.shape, Len(tasks)), state |-> "queued"])
    /\ UNCHANGED <<batch, grids, outqueue, writers, overtaken, pc, dataVars, buildVars, calVars, fitVars>>

\* line 120: the loop is over, pool.close()
Close ==
    /\ pc = "submit"
    /\ Len(tasks) = ShapeSize(batch.shape)
    /\ pc' = "join"
    /\ UNCHANGED <<batch, grids, tasks, outqueue, writers, overtaken, dataVars, buildVars, calVars, fitVars>>

\* an idle worker process takes the oldest queued task
Start(t) ==
    /\ t \in TaskSet
    /\ tasks[t].state = "queued"
    /\ \A u \in TaskSet : u < t => tasks[u].state # "queued"
    /\ Cardinality(Running) < Workers
    /\ tasks' = [tasks EXCEPT ![t].state = "running"]
    /\ UNCHANGED <<batch, grids, outqueue, writers, overtaken, pc, dataVars, buildVars, calVars, fitVars>>

\* a worker finishes fit_index and puts the outcome on the result queue
Finish(t) ==
    /\ t \in TaskSet
    /\ tasks[t].state = "running"
    /\ tasks' = [tasks EXCEPT ![t].state = "finished"]
    /\ outqueue' = Append(outqueue, t)
    /\ UNCHANGED <<batch, grids, writers, overtaken, pc, dataVars, buildVars, calVars, fitVars>>

\* the result thread takes the oldest outcome: the callback runs when the
\* task returned, and nothing runs when it raised
HandleResult ==
    /\ outqueue # <<>>
    /\ LET t == Head(outqueue)
           r == fit_index(tasks[t].index, CurveOf(batch.curves[tasks[t].index]),
                          batch.depth, batch.setpoint, batch.threshold_factor)
       IN  /\ outqueue' = Tail(outqueue)
           /\ tasks' = [tasks EXCEPT ![t].state = "handled"]
           /\ grids' = IF r.exc = "none" THEN fit_callback(grids, batch.shape, r) ELSE grids
           /\ writers' = IF r.exc = "none"
                         THEN [c \in DOMAIN writers |->
                                  IF c \in IndexedCells(batch.shape, r.index)
                                  THEN writers[c] \cup {t} ELSE writers[c]]
                         ELSE writers
           /\ overtaken' = (overtaken \/ \E u \in TaskSet : u < t /\ tasks[u].state # "handled")
    /\ UNCHANGED <<batch, pc, dataVars, buildVars, calVars, fitVars>>

\* lines 121-123: pool.join() comes back once the workers and the result
\* thread are done, and fit_all returns the four grids
Join ==
    /\ pc = "join"
    /\ \A t \in TaskSet : tasks[t].state = "handled"
    /\ pc' = "returned"
    /\ UNCHANGED <<batch, grids, tasks, outqueue, writers, overtaken, dataVars, buildVars, calVars, fitVars>>

\* lines 105-108: four np.empty grids of shape force.shape[:2]
PoolInit ==
    /\ batch \in Batches
    /\ grids = [cp    |-> [c \in ShapeCells(batch.shape) |-> batch.empty],
                cperr |-> [c \in ShapeCells(batch.shape) |-> batch.empty],
                E     |-> [c \in ShapeCells(batch.shape) |-> batch.empty],
                Eerr  |-> [c \in ShapeCells(batch.shape) |-> batch.empty]]
    /\ tasks = <<>>
    /\ outqueue = <<>>
    /\ writers = [c \in ShapeCells(batch.shape) |-> {}]
    /\ overtaken = FALSE
    /\ pc = "submit"

(***************************************************************************)
(* Idle values of the subsystems a specification does not exercise.        *)
(***************************************************************************)
BuildIdle == bseg = <<>> /\ channelOut = NoChannel
CalIdle   == shared_data = <<>> /\ calOut = NoCal
FitIdle   == fitIn = <<>> /\ fitOut = NoFit
PoolIdle  ==
    /\ batch = <<>> /\ grids = <<>> /\ tasks = <<>> /\ outqueue = <<>> /\ writers = <<>>
    /\ overtaken = FALSE /\ pc = "idle"

DataIdle  == segment_styles = EmptyDict /\ datasets = <<>> /\ ret = NoRet

SpecDataInit == DataInit /\ BuildIdle /\ CalIdle /\ FitIdle /\ PoolIdle
SpecDataNext ==
    \/ \E file \in Files : Open(file)
    \/ \E file \in Files : detect_by_content(file)
    \/ \E i \in 1..Len(datasets), style \in Styles, hs \in BOOLEAN, hh \in BOOLEAN :
          segment(i, style, hs, hh)
SpecData == SpecDataInit /\ [][SpecDataNext]_vars

SpecOpenInit == DataInit /\ BuildIdle /\ CalIdle /\ FitIdle /\ PoolIdle
SpecOpenNext ==
    \/ \E file \in Files : OpenFirst(file)
    \/ \E file \in Files : detect_by_content(file)
SpecOpen == SpecOpenInit /\ [][SpecOpenNext]_vars

SpecBuildInit == BuildInit /\ DataIdle /\ CalIdle /\ FitIdle /\ PoolIdle
SpecBuildNext == \E name \in Channels : channel(name)
SpecBuild == SpecBuildInit /\ [][SpecBuildNext]_vars

SpecCalInit == CalInit /\ DataIdle /\ BuildIdle /\ FitIdle /\ PoolIdle
SpecCalNext ==
    \/ \E conversion \in SlotNames : GetCoefficients(conversion)
    \/ \E conversion \in SlotNames, v \in SampleValues : calibrate(conversion, v)
    \/ \E conversion \in SlotNames, v \in SampleValues : calibratejpkqidata(conversion, v)
SpecCal == SpecCalInit /\ [][SpecCalNext]_vars

SpecFitInit == FitInit /\ DataIdle /\ BuildIdle /\ CalIdle /\ PoolIdle
SpecFitNext == Fit
SpecFit == SpecFitInit /\ [][SpecFitNext]_vars

SpecStartInit == StartInit /\ DataIdle /\ BuildIdle /\ CalIdle /\ PoolIdle
SpecStartNext == FindFitRegionStart
SpecStart == SpecStartInit /\ [][SpecStartNext]_vars

SpecPoolInit == PoolInit /\ DataIdle /\ BuildIdle /\ CalIdle /\ FitIdle
SpecPoolNext ==
    \/ Submit
    \/ Close
    \/ \E t \in TaskSet : Start(t)
    \/ \E t \in TaskSet : Finish(t)
    \/ HandleResult
    \/ Join
SpecPool == SpecPoolInit /\ [][SpecPoolNext]_vars

(***************************************************************************)
(* Properties                                                              *)
(***************************************************************************)
Declared(styles) == {styles[k] : k \in 1..Len(styles)}

FirstOrdinal(styles, s) == Min({k \in 0..(Len(styles) - 1) : styles[k + 1] = s})

\* C1: segment-style lookup is first-wins per dataset: the style index of a
\* dataset maps every style its archive declares to the smallest ordinal
\* declared with that style, and segment(style) returns a descriptor with
\* exactly that ordinal.
C1_FirstWinsLookup ==
    /\ \A i \in 1..Len(datasets) : \A s \in Declared(datasets[i].styles) :
          /\ s \in DOMAIN InstanceStyles(i)
          /\ InstanceStyles(i)[s] = FirstOrdinal(datasets[i].styles, s)
    /\ (ret.op = "segment" /\ ret.exc = "none"
        /\ ret.style \in Declared(datasets[ret.ds].styles))
       => ret.number = FirstOrdinal(datasets[ret.ds].styles, ret.style)

\* C2: the style index is per-Dataset state: whatever was opened before or
\* after, the index of each dataset holds exactly the styles its own archive
\* declares, each at its first ordinal in that archive.
C2_PerDatasetIndex ==
    \A i \in 1..Len(datasets) :
        /\ DOMAIN InstanceStyles(i) = Declared(datasets[i].styles)
        /\ \A s \in Declared(datasets[i].styles) :
              InstanceStyles(i)[s] = FirstOrdinal(datasets[i].styles, s)

GridPixels(sg) == (0..(sg.ilength - 1)) \X (0..(sg.jlength - 1))

\* The length of the entry the spec assigns to pixel px, or Absent.
EntryLen(sg, px) == sg.lens[px[2] + (sg.ilength - 1 - px[1]) * sg.jlength]

\* C3: after a build, grid[i,j,k] is NaN exactly when the pixel's entry is
\* absent or holds no more than k samples, and is otherwise the scaled k-th
\* sample of that entry; absent and short entries never make the build fail.
C3_NaNPadding ==
    channelOut.called =>
        /\ (\A px \in GridPixels(bseg) :
               EntryLen(bseg, px) = Absent \/ EntryLen(bseg, px) <= bseg.num_points)
           => channelOut.exc = "none"
        /\ channelOut.exc = "none" =>
              \A px \in GridPixels(bseg) : \A k \in 0..(bseg.num_points - 1) :
                  LET v == channelOut.grid[px][k + 1]
                      n == px[2] + (bseg.ilength - 1 - px[1]) * bseg.jlength
                      lcd == LcdInfo(channelOut.name)
                  IN  /\ IsNaN(v) <=> (EntryLen(bseg, px) = Absent \/ k >= EntryLen(bseg, px))
                      /\ ~IsNaN(v) =>
                            v = EncoderValue(RawSample(EntryPath(n, bseg.number, channelOut.name), k),
                                             bseg.encoder.multiplier[lcd], bseg.encoder.offset[lcd])

\* A build that succeeded over an absent entry, a short one and a full one.
C3_Witness ==
    /\ channelOut.called /\ channelOut.exc = "none"
    /\ \E px \in GridPixels(bseg) : EntryLen(bseg, px) = Absent
    /\ \E px \in GridPixels(bseg) : EntryLen(bseg, px) = 1 /\ bseg.num_points = 2
    /\ \E px \in GridPixels(bseg) : EntryLen(bseg, px) = bseg.num_points

\* C4: for every pixel (i,j) the build reads exactly the entry
\* index/<n>/segments/<ordinal>/channels/<channel>.dat with
\* n = j + (ilength-1-i)*jlength, and the samples of that entry are stored
\* at grid[i][j] and at no other pixel.
C4_PixelEntryMap ==
    channelOut.called =>
        /\ channelOut.exc = "none" => DOMAIN channelOut.reads = GridPixels(bseg)
        /\ \A px \in DOMAIN channelOut.reads :
              /\ channelOut.reads[px] =
                    EntryPath(px[2] + (bseg.ilength - 1 - px[1]) * bseg.jlength,
                              bseg.number, channelOut.name)
              /\ \A qx \in DOMAIN channelOut.reads :
                    qx # px => channelOut.reads[qx] # channelOut.reads[px]
        /\ channelOut.exc = "none" =>
              \A px \in GridPixels(bseg), qx \in GridPixels(bseg) :
                  \A k \in 1..bseg.num_points, l \in 1..bseg.num_points :
                      (qx # px /\ ~IsNaN(channelOut.grid[px][k]))
                      => channelOut.grid[qx][l] # channelOut.grid[px][k]

\* A build of a 2 x 2 grid whose four entries all hold samples.
C4_Witness ==
    /\ channelOut.called /\ channelOut.exc = "none"
    /\ bseg.ilength = 2 /\ bseg.jlength = 2
    /\ \A px \in GridPixels(bseg) : EntryLen(bseg, px) = bseg.num_points
    /\ channelOut.reads[<<0, 1>>].index = 3

\* The pairs <<pixel, k>> of a built grid that hold a sample of the archive.
StoredSamples ==
    {pk \in GridPixels(bseg) \X (0..(bseg.num_points - 1)) :
        EntryLen(bseg, pk[1]) # Absent /\ pk[2] < EntryLen(bseg, pk[1])}

\* C5 as claimed: the build stores calibrate(r, multiplier, offset) =
\* (r + offset) * multiplier for every decoded raw sample r.
C5_EncoderIsCalibrate ==
    (channelOut.called /\ channelOut.exc = "none") =>
        \A pk \in StoredSamples :
            LET lcd == LcdInfo(channelOut.name)
                r == RawSample(channelOut.reads[pk[1]], pk[2])
            IN  channelOut.grid[pk[1]][pk[2] + 1] =
                    Affine(FromInt(r), FromInt(bseg.encoder.multiplier[lcd]),
                           FromInt(bseg.encoder.offset[lcd]))

\* C5 as amended: the build stores r * multiplier + offset (multiplied
\* first, the offset added last) for every decoded raw sample r.
C5_EncoderMultiplyThenAdd ==
    (channelOut.called /\ channelOut.exc = "none") =>
        \A pk \in StoredSamples :
            LET lcd == LcdInfo(channelOut.name)
                r == RawSample(channelOut.reads[pk[1]], pk[2])
            IN  channelOut.grid[pk[1]][pk[2] + 1] =
                    Rat(r * bseg.encoder.multiplier[lcd] + bseg.encoder.offset[lcd], 1)

\* A built grid holding a sample on which the two laws differ.
C5_Witness ==
    /\ channelOut.called /\ channelOut.exc = "none"
    /\ \E pk \in StoredSamples :
          LET lcd == LcdInfo(channelOut.name)
              r == RawSample(channelOut.reads[pk[1]], pk[2])
          IN  /\ channelOut.grid[pk[1]][pk[2] + 1] =
                     Rat(r * bseg.encoder.multiplier[lcd] + bseg.encoder.offset[lcd], 1)
              /\ r * bseg.encoder.multiplier[lcd] + bseg.encoder.offset[lcd]
                     # (r + bseg.encoder.offset[lcd]) * bseg.encoder.multiplier[lcd]

\* All three keys of a conversion are present and hold numbers.
Configured(c) ==
    /\ c.base # Missing /\ c.multiplier # Missing /\ c.offset # Missing
    /\ IsFloat(c.multiplier) /\ IsFloat(c.offset)

\* The property map of the doctests: volts unconfigured, distance on volts
\* with (2, 3), force on distance with (4, 5).
DoctestMap ==
    ("volts" :> Unconfigured)
    @@ ("distance" :> [base |-> "volts", multiplier |-> "2", offset |-> "3"])
    @@ ("force" :> [base |-> "distance", multiplier |-> "4", offset |-> "5"])

\* C6: a conversion with its three keys (base, m, o) whose base resolves to
\* (bm, bo) resolves to (bm*m, bo + o/bm); on the doctest map distance
\* resolves to (2, 3) and force to (8, 5.5).
C6_ChainedCoefficients ==
    calOut.op = "get_coefficients" =>
        LET c == Config(shared_data, calOut.slot)
            b == get_coefficients(shared_data, c.base, 1)
        IN  /\ (Configured(c) /\ b.exc = "none" /\ b.multiplier # FromInt(0)) =>
                  /\ calOut.exc = "none"
                  /\ calOut.multiplier = RMul(b.multiplier, Float(c.multiplier))
                  /\ calOut.offset = RAdd(b.offset, RDiv(Float(c.offset), b.multiplier))
            /\ (shared_data = DoctestMap /\ calOut.slot = "distance") =>
                  calOut.multiplier = FromInt(2) /\ calOut.offset = FromInt(3)
            /\ (shared_data = DoctestMap /\ calOut.slot = "force") =>
                  calOut.multiplier = FromInt(8) /\ calOut.offset = Rat(11, 2)

\* force resolved on the doctest map
C6_Witness ==
    /\ shared_data = DoctestMap
    /\ calOut.op = "get_coefficients" /\ calOut.slot = "force" /\ calOut.exc = "none"
    /\ calOut.offset = Rat(11, 2)

\* C7: when at least one of the three keys of the conversion is absent,
\* get_coefficients returns exactly (1.0, 0.0) and raises nothing.
C7_TerminalBaseCase ==
    LET c == Config(shared_data, calOut.slot)
    IN  (calOut.op = "get_coefficients"
         /\ (c.base = Missing \/ c.multiplier = Missing \/ c.offset = Missing))
        => /\ calOut.exc = "none"
           /\ calOut.multiplier = FromInt(1)
           /\ calOut.offset = FromInt(0)

\* C8: calibration is (v + o) * m, the offset added before the multiplication,
\* with (m, o) the coefficients the conversion resolves to.
C8_CalibrateLaw ==
    calOut.op \in {"calibrate", "calibratejpkqidata"} =>
        LET r == get_coefficients(shared_data, calOut.slot, 1)
        IN  /\ calOut.exc = r.exc
            /\ r.exc = "none" =>
                  calOut.out = Rat((calOut.v[1] * r.offset[2] + r.offset[1] * calOut.v[2]) * r.multiplier[1],
                                   calOut.v[2] * r.offset[2] * r.multiplier[2])

\* Channel.calibrate returned a value that multiply-then-add would not give.
C8_Witness ==
    /\ calOut.op = "calibrate" /\ calOut.exc = "none"
    /\ calOut.out # RAdd(RMul(calOut.v, calOut.multiplier), calOut.offset)
    /\ calOut.out = RMul(RAdd(calOut.v, calOut.offset), calOut.multiplier)

\* The base references from a conversion, each with its three keys, come
\* back to a conversion already visited.
RECURSIVE OnCycle(_, _, _)
OnCycle(sd, conversion, visited) ==
    LET c == Config(sd, conversion)
    IN  IF ~Configured(c) THEN FALSE
        ELSE IF conversion \in visited THEN TRUE
        ELSE OnCycle(sd, c.base, visited \cup {conversion})

\* C9: when the base references reachable from the requested conversion hold
\* a cycle, the top-level call fails with CalibrationCycleError rather than
\* recursing without bound; an acyclic chain never exhausts the recursion.
C9_CycleSafety ==
    calOut.op = "get_coefficients" =>
        /\ OnCycle(shared_data, calOut.slot, {}) => calOut.exc = "CalibrationCycleError"
        /\ ~OnCycle(shared_data, calOut.slot, {}) => calOut.exc # "RuntimeError"

\* C10: fit never raises, and whenever the baseline fit fails, the Hertz
\* solver does not converge or the fit region holds fewer than two samples
\* (a setpoint no sample exceeds included), the result is NaN.
C10_FitNeverRaises ==
    fitOut.called =>
        /\ fitOut.exc = "none"
        /\ (fitIn.baseline.exc # "none" \/ fitIn.hertzFit # "converged"
            \/ fitOut.end - fitOut.start < 2) => fitOut.nan

\* What the task of a pixel answers: fit_index on the pixel's two curves.
PixelFit(c) ==
    fit_index(c, CurveOf(batch.curves[c]), batch.depth, batch.setpoint, batch.threshold_factor)

\* The four values the spec assigns to a pixel: those of its fit, and NaN
\* when the fit failed.
CellValues(c) ==
    IF PixelFit(c).exc = "none"
    THEN <<PixelFit(c).popt[1], PixelFit(c).perr[1], PixelFit(c).popt[2], PixelFit(c).perr[2]>>
    ELSE <<NaN, NaN, NaN, NaN>>

CellContent(c) == <<grids.cp[c], grids.cperr[c], grids.E[c], grids.Eerr[c]>>

\* C11: when fit_all has returned, every pixel's task is done and applied:
\* the four cells of every pixel hold the four values of its fit, or NaN
\* when the fit failed; no cell is left unwritten, and no write is pending.
C11_AllAppliedAtReturn ==
    pc = "returned" =>
        /\ outqueue = <<>>
        /\ \A t \in TaskSet : tasks[t].state = "handled"
        /\ \A c \in ShapeCells(batch.shape) :
              /\ writers[c] # {}
              /\ CellContent(c) = CellValues(c)

\* The fit of a pixel failed: its task raised, or fit answered NaN.
FitFailed(c) == PixelFit(c).exc # "none" \/ IsNaN(PixelFit(c).popt[1])

\* C12: failure isolation: in the grids fit_all returns, a pixel whose fit
\* failed (the solver did not converge, the region was degenerate, or its
\* task raised) holds NaN in its four cells, and every other pixel holds the
\* four values of its own fit, whatever happened to the failing pixel.
C12_FailureIsolation ==
    pc = "returned" =>
        \A c \in ShapeCells(batch.shape) :
            IF FitFailed(c)
            THEN \A k \in 1..4 : IsNaN(CellContent(c)[k])
            ELSE CellContent(c) = <<CurveOf(batch.curves[c]).answer.popt[1],
                                    CurveOf(batch.curves[c]).answer.perr[1],
                                    CurveOf(batch.curves[c]).answer.popt[2],
                                    CurveOf(batch.curves[c]).answer.perr[2]>>

\* C13: disjoint writes: the tasks submitted carry pairwise different
\* indexes of the grid, once the loop is over there is exactly one task per
\* pixel, and the cells of a pixel are written by the callback of that
\* pixel's own task only, at most once.
C13_DisjointWrites ==
    /\ \A t \in TaskSet : tasks[t].index \in ShapeCells(batch.shape)
    /\ \A t \in TaskSet, u \in TaskSet : t # u => tasks[t].index # tasks[u].index
    /\ pc \in {"join", "returned"} =>
          /\ Len(tasks) = ShapeSize(batch.shape)
          /\ {tasks[t].index : t \in TaskSet} = ShapeCells(batch.shape)
    /\ \A c \in DOMAIN writers :
          /\ writers[c] \subseteq {t \in TaskSet : tasks[t].index = c}
          /\ Cardinality(writers[c]) <= 1

\* A 2 x 2 grid whose four cells were written, one of them before the task
\* of an earlier pixel was handled.
C13_Witness ==
    /\ pc = "returned" /\ overtaken
    /\ batch.shape = <<2, 2>>
    /\ \A c \in ShapeCells(batch.shape) : Cardinality(writers[c]) = 1

\* C20: the grids fit_all returns are the same for every order in which the
\* tasks are started, finish and are handled: every cell holds what its own
\* task answered, or what the pre-allocated grid held when its task raised;
\* nothing else of the run shows in them.
C20_OrderIndependence ==
    pc = "returned" =>
        \A c \in ShapeCells(batch.shape) :
            CellContent(c) =
                IF PixelFit(c).exc = "none"
                THEN <<PixelFit(c).popt[1], PixelFit(c).perr[1],
                       PixelFit(c).popt[2], PixelFit(c).perr[2]>>
                ELSE <<batch.empty, batch.empty, batch.empty, batch.empty>>

\* fit_all returned a 2 x 2 grid after handling results out of submission
\* order, with two pixels of one row holding different values.
C20_Witness ==
    /\ pc = "returned" /\ overtaken
    /\ batch.shape = <<2, 2>>
    /\ \E c \in ShapeCells(batch.shape), d \in ShapeCells(batch.shape) :
          /\ c[1] = d[1]
          /\ ~IsNaN(grids.E[c]) /\ ~IsNaN(grids.E[d])
          /\ grids.E[c] # grids.E[d]
          /\ writers[c] # {} /\ writers[d] # {}

\* The archives the spec rejects: not a zip, a property block missing, a
\* mandatory key or a per-ordinal style missing, a numeric key not numeric.
Malformed == {"notzip", "noentry", "nokey", "badnumber", "nocount", "badcount", "nostyle"}

\* C14: open fails with JpkQiDataException, and with no other exception,
\* whenever the file is not a valid archive, a property block or a mandatory
\* key is missing or a numeric key holds no number; a well-formed archive
\* opens.
C14_OpenFormatError ==
    ret.op = "open" =>
        /\ ret.kind \in Malformed => ret.exc = "JpkQiDataException"
        /\ ret.kind = "qi" => ret.exc = "none"

\* C15: detect_by_content answers 100 exactly when open succeeds on the
\* file (it does exactly on the well-formed archives) and 0 otherwise, and
\* no exception leaves it.
C15_DetectByContent ==
    /\ ret.op = "detect" =>
          /\ ret.exc = "none"
          /\ ret.number \in {0, 100}
          /\ ret.number = 100 <=> ret.kind = "qi"
    /\ ret.op = "open" => (ret.exc = "none" <=> ret.kind = "qi")

\* Detection answered 0 for an archive whose last style key is missing, after
\* an archive was detected and one was opened.
C15_Witness ==
    /\ ret.op = "detect" /\ ret.kind = "nostyle" /\ ret.number = 0
    /\ Len(datasets) = 1
    /\ segment_styles # EmptyDict

\* A bound of the fit region is provided when it is not None.
Provided(bound) == bound # None

\* C16: the fit runs over [start, end): start is the contact index of the
\* baseline-subtracted force, and end is the least of len(x), start +
\* depthcount when depthcount is provided, the first index with x below
\* x[start] - depth when depth is provided and there is one, and the first
\* index with y' above setpoint when setpoint is provided; a bound of 0 is
\* provided.
C16_FitRegion ==
    (fitOut.called /\ fitOut.exc = "none") =>
        LET x == fitIn.xdata
            y == subtract_baseline(x, fitIn.ydata, fitIn.baseline)
            start == find_fit_region_start(y, fitIn.threshold_factor)
            deeper == {k \in 0..(Len(x) - 1) : x[k + 1] < x[start + 1] - fitIn.depth}
            above == {k \in 0..(Len(x) - 1) : y[k + 1] > fitIn.setpoint}
            ends == {Len(x)}
                    \cup (IF Provided(fitIn.depthcount) THEN {start + fitIn.depthcount} ELSE {})
                    \cup (IF Provided(fitIn.depth) /\ deeper # {} THEN {Min(deeper)} ELSE {})
                    \cup (IF Provided(fitIn.setpoint) /\ above # {} THEN {Min(above)} ELSE {})
        IN  /\ fitOut.start = start
            /\ fitOut.end = Min(ends)

\* n^2 times the variance of the first n samples of y
NoiseSpread(y, n) ==
    n * SumSeq([i \in 1..n |-> y[i] * y[i]]) - SumSeq(SubSeq(y, 1, n)) * SumSeq(SubSeq(y, 1, n))

\* y[k] > factor * stddev(y[:floor(0.4*len(y))]), for a factor above 0; the
\* standard deviation of no samples is NaN, which nothing exceeds.
AboveNoise(y, factor, k) ==
    LET n == (2 * Len(y)) \div 5
    IN  n > 0 /\ y[k + 1] > 0 /\ y[k + 1] * y[k + 1] * n * n > factor * factor * NoiseSpread(y, n)

\* C17: find_fit_region_start answers the smallest index whose sample is
\* strictly above factor times the standard deviation of the first
\* floor(0.4 * len) samples, and 0 when no sample is; for data that is not
\* empty the answer is an index of the data.
C17_ContactIndex ==
    fitOut.called =>
        LET y == fitIn.data
            f == fitIn.threshold_factor
            k == fitOut.start
        IN  /\ (\E j \in 0..(Len(y) - 1) : AboveNoise(y, f, j)) =>
                  /\ k \in 0..(Len(y) - 1)
                  /\ AboveNoise(y, f, k)
                  /\ \A j \in 0..(k - 1) : ~AboveNoise(y, f, j)
            /\ (\A j \in 0..(Len(y) - 1) : ~AboveNoise(y, f, j)) => k = 0
            /\ Len(y) > 0 => k \in 0..(Len(y) - 1)

\* The contact index of six samples is 4: the threshold is 1.5, the
\* samples 1 at 2 and 3 are below it, the sample 2 at 4 is above it.
C17_Witness ==
    /\ fitOut.called
    /\ fitIn.data = <<-3, 0, 1, 1, 2, 0>> /\ fitIn.threshold_factor = 1
    /\ fitOut.start = 4

\* C18: when the three keys of a conversion are present and hold numbers
\* and its base resolves to a multiplier of exactly 0, resolving fails with
\* CalibrationError; no division fault reaches the caller.
C18_ZeroBaseMultiplier ==
    calOut.op = "get_coefficients" =>
        LET c == Config(shared_data, calOut.slot)
            b == get_coefficients(shared_data, c.base, 1)
        IN  /\ (Configured(c) /\ b.exc = "none" /\ b.multiplier = FromInt(0))
                  => calOut.exc = "CalibrationError"
            /\ calOut.exc # "ZeroDivisionError"

\* The conversions applied one after the other, from the end of the chain
\* up to the requested one: each adds its own offset, then multiplies by its
\* own multiplier; a conversion that lacks a key applies nothing.
RECURSIVE Sequential(_, _, _, _)
Sequential(sd, conversion, v, depth) ==
    LET c == Config(sd, conversion)
    IN  IF depth > RecursionLimit \/ ~Configured(c) THEN v
        ELSE RMul(RAdd(Sequential(sd, c.base, v, depth + 1), Float(c.offset)),
                  Float(c.multiplier))

\* C19: calibrating with the composed coefficients of a conversion equals
\* calibrating with those of its base and then with its own (m, o), for
\* every value and along the whole chain, wherever the coefficients resolve.
C19_ComposeIsSequential ==
    (calOut.op = "calibrate" /\ calOut.exc = "none") =>
        LET c == Config(shared_data, calOut.slot)
            b == get_coefficients(shared_data, c.base, 1)
        IN  /\ Configured(c) =>
                  calOut.out =
                      RMul(RAdd(RMul(RAdd(calOut.v, b.offset), b.multiplier), Float(c.offset)),
                           Float(c.multiplier))
            /\ calOut.out = Sequential(shared_data, calOut.slot, calOut.v, 1)

\* A value calibrated through a chain of three conversions, force on
\* distance on volts, whose composed offset is no whole number.
C19_Witness ==
    /\ calOut.op = "calibrate" /\ calOut.exc = "none" /\ calOut.slot = "force"
    /\ Configured(Config(shared_data, "force")) /\ shared_data["force"].base = "distance"
    /\ Configured(Config(shared_data, "distance")) /\ shared_data["distance"].base = "volts"
    /\ Configured(Config(shared_data, "volts"))
    /\ calOut.offset[2] # 1
    /\ calOut.out = Sequential(shared_data, "force", calOut.v, 1)

\* C21: the map from pixels to entry indexes is a bijection onto
\* 0..ilength*jlength-1: the indexes the build asks the archive for are
\* never negative nor past the last one, no two pixels ask for the same
\* one, and a build that ran over all pixels asked for every one of them.
C21_PixelMapBijection ==
    channelOut.called =>
        LET asked == {channelOut.reads[px].index : px \in DOMAIN channelOut.reads}
        IN  /\ asked \subseteq 0..(bseg.ilength * bseg.jlength - 1)
            /\ Cardinality(asked) = Cardinality(DOMAIN channelOut.reads)
            /\ channelOut.exc = "none" =>
                  /\ DOMAIN channelOut.reads = GridPixels(bseg)
                  /\ asked = 0..(bseg.ilength * bseg.jlength - 1)

\* A build over a grid of four rows and one column: the first row reads
\* entry 3, the last row entry 0.
C21_Witness ==
    /\ channelOut.called /\ channelOut.exc = "none"
    /\ bseg.ilength = 4 /\ bseg.jlength = 1
    /\ channelOut.reads[<<0, 0>>].index = 3
    /\ channelOut.reads[<<3, 0>>].index = 0

\* An attempt that failed: an open that raised JpkQiDataException, or a
\* detection that answered 0.
FailedAttempt(r) ==
    \/ r.op = "open" /\ r.exc = "JpkQiDataException"
    \/ r.op = "detect" /\ r.number = 0

\* C22: a failed open or a detection that answers 0 leaves no trace: the
\* style map every dataset sees, opened before or afterwards, is after the
\* attempt what it was before it.
C22_FailedOpenNoTrace ==
    [][FailedAttempt(ret') => segment_styles' = segment_styles]_vars

\* C23: a build always returns a grid of ilength x jlength x num_points: an
\* entry with more than num_points samples does not make it fail, and the
\* pixel holds the first num_points samples of its entry.
C23_LongEntryTruncated ==
    channelOut.called =>
        /\ channelOut.exc = "none"
        /\ DOMAIN channelOut.grid = GridPixels(bseg)
        /\ \A px \in GridPixels(bseg) :
              /\ Len(channelOut.grid[px]) = bseg.num_points
              /\ EntryLen(bseg, px) > bseg.num_points =>
                    \A k \in 0..(bseg.num_points - 1) :
                        channelOut.grid[px][k + 1] =
                            EncoderValue(RawSample(channelOut.reads[px], k),
                                         bseg.encoder.multiplier[LcdInfo(channelOut.name)],
                                         bseg.encoder.offset[LcdInfo(channelOut.name)])

====
